---------------------------- MODULE Spec2Model ----------------------------
(***************************************************************************)
(* A model of the content acquisition pipeline of LastPerson07Bot:         *)
(*   - the provider fallback chain (utils/fetcher.py, fetch_wallpaper),    *)
(*   - the daily quota of a consumer (db/queries.py, check_daily_limit     *)
(*     and update_user_fetch_count),                                       *)
(*   - the on-demand handlers that combine both (handlers/user_handlers).  *)
(*   - the schedule registry and the job scheduler (db/queries.py,         *)
(*     utils/scheduler.py).                                                *)
(*                                                                         *)
(* The specifications share the variables:                                 *)
(*   SpecAcquire       one call of fetch_wallpaper, one step per await,    *)
(*   SpecQuotaOps      the quota operations called one after another,      *)
(*   SpecFetchCommand  /fetch commands, one step per await,                *)
(*   SpecOnDemand      /fetch commands and fetch_<category> buttons.       *)
(*   SpecRegistry      schedule registrations, withdrawals and restarts,   *)
(*   SpecScheduler     the scheduler and the runs of its jobs, per await,  *)
(*   SpecStartup       the scheduler's startup over registries of any size.*)
(*   SpecAcquireFair   SpecAcquire with every await returning,             *)
(*   SpecValidate      direct calls of the content validator,              *)
(*   SpecSanitize      direct calls of the category sanitizer,             *)
(*   SpecSchedulerWithUsers  SpecScheduler next to stored consumers,       *)
(*   SpecOnDemandBans  SpecOnDemand with consumers banned and unbanned,    *)
(*   SpecInitialize    the connection step of the bot's initialization,    *)
(*   SpecAcquireCancel SpecAcquire with a caller that cancels the call,    *)
(*   SpecTimers        add_schedule, restarts and the fire times of jobs.  *)
(* Outside SpecInitialize the persistence store is taken to answer every   *)
(* read and write.                                                         *)
(***************************************************************************)
EXTENDS Integers, Sequences, FiniteSets, TLC

VARIABLES
    \* ---- fetcher (utils/fetcher.py) ----
    api_keys,          \* provider -> BOOLEAN: the credential is configured
    pillow_available,  \* BOOLEAN: image validation is available
    fpc,               \* position of fetch_wallpaper: "idle","fetch","validate","done"
    api_idx,           \* index into ApiOrder of the provider being tried
    wallpaper_data,    \* the record returned by the adapter being tried
    result,            \* what fetch_wallpaper returned
    fetched,           \* provider -> what its adapter returned in this call
    validated,         \* provider -> outcome of validating its record
    calls,             \* the adapter and validator calls made, in order
    cancelled,         \* the task running fetch_wallpaper was cancelled
    \* ---- persistence store and clock (db/queries.py) ----
    users,             \* consumer -> stored user document (or NoUser)
    today,             \* the current UTC calendar day
    \* ---- a sequence of quota operations (SpecQuotaOps) ----
    lastCall,          \* the last quota operation: arguments, result, state before
    streak,            \* consumer -> progress of a run of check+record cycles
    \* ---- on-demand requests (handlers/user_handlers.py) ----
    req,               \* request -> its handler's position and locals
    consumedToday,     \* consumer -> consumptions recorded on the current day
    deliveredToday,    \* consumer -> on-demand deliveries on the current day
    lastCheck,         \* the last completed check_daily_limit of a request
    \* ---- schedule registry and job scheduler (utils/scheduler.py) ----
    schedules,         \* the schedules collection, in natural order
    jobs,              \* the job store of the AsyncIOScheduler
    running,           \* LastPerson07Scheduler.running
    ticks,             \* runs of lastperson07_post_wallpaper_job in flight
    now,               \* the scheduler's clock: the number of jobs fired
    clock,             \* the wall clock, in hours since the process began
    withdrawn,         \* keys whose remove_schedule has returned
    latest,            \* key and category of the latest add_schedule
    last_tick,         \* the run of the job that ended last
    escaped,           \* an exception left lastperson07_post_wallpaper_job
    \* ---- direct calls of the fetcher's helpers ----
    temp_files,        \* temporary files of the validator present on disk
    last_validation,   \* the last direct call of the validator and its run
    raw_category,      \* the argument of lastperson07_sanitize_category
    sanitized_category, \* what lastperson07_sanitize_category returned
    \* ---- database client and bot initialization (db/client.py, app.py) ----
    is_connected,      \* LastPerson07DatabaseClient.is_connected
    init               \* position of lastperson07_initialize and its locals

acquireVars == <<api_keys, pillow_available, fpc, api_idx, wallpaper_data,
                 result, fetched, validated, calls, cancelled>>
storeVars   == <<users, today>>
opsVars     == <<lastCall, streak>>
demandVars  == <<req, consumedToday, deliveredToday, lastCheck>>
schedVars   == <<schedules, jobs, running, ticks, now, clock, withdrawn, latest,
                 last_tick, escaped>>
helperVars  == <<temp_files, last_validation, raw_category, sanitized_category>>
dbVars      == <<is_connected, init>>
vars == <<acquireVars, storeVars, opsVars, demandVars, schedVars, helperVars,
          dbVars>>

-----------------------------------------------------------------------------
(* Program constants (config/config.py)                                    *)

LASTPERSON07_FREE_FETCH_LIMIT == 5
LASTPERSON07_MIN_IMAGE_WIDTH == 1920
LASTPERSON07_MIN_IMAGE_HEIGHT == 1080
LASTPERSON07_MAX_FILE_SIZE_MB == 20

MaxFileSizeBytes == LASTPERSON07_MAX_FILE_SIZE_MB * 1024 * 1024

(* Bounds of the model                                                     *)

MaxHits == 2        \* photos in one provider response
MaxDay == 1         \* the clock runs over the days 0..MaxDay
MaxCount == 6       \* fetch_count is not incremented beyond this
MaxTicks == 2       \* jobs fired by the scheduler
MaxEntries == 101   \* documents in the registry at a startup
MaxTempFiles == 2   \* temporary files left on disk by direct validator calls
MaxCategoryLen == 3 \* characters of a short raw category

-----------------------------------------------------------------------------
(* Provider responses and content records                                  *)

\* (mutant) Pexels is tried before Unsplash.
ApiOrderSwapped == <<"pexels", "unsplash", "pixabay">>

\* for api_source in ["unsplash", "pexels", "pixabay"]
ApiOrder == <<"unsplash", "pexels", "pixabay">>
Providers == {ApiOrder[i] : i \in 1..Len(ApiOrder)}

\* The photo objects a provider can report: width, height, preview URL.
\* "" is a missing URL field, 0 a missing width or height field.
Photos ==
    [width  : {0, LASTPERSON07_MIN_IMAGE_WIDTH - 1, LASTPERSON07_MIN_IMAGE_WIDTH},
     height : {0, LASTPERSON07_MIN_IMAGE_HEIGHT - 1, LASTPERSON07_MIN_IMAGE_HEIGHT},
     url    : {"", "http://img"}]

PhotoLists == UNION {[1..n -> Photos] : n \in 0..MaxHits}

\* What the provider's HTTP call does: status 200 with a list of photos,
\* the rate-limit status, another status, a network error or timeout, or a
\* body that does not have the expected shape.
Responses ==
    [status : {"200"}, items : PhotoLists]
    \cup [status : {"ratelimit", "error", "neterr", "malformed"}, items : {<<>>}]

\* LastPerson07WallpaperData (title, author and download_url play no part in
\* any decision and are left out).
NoData == [source |-> "None", width |-> 0, height |-> 0, image_url |-> ""]

WallpaperData(source, photo) ==
    [source |-> source, width |-> photo.width, height |-> photo.height,
     image_url |-> photo.url]


-----------------------------------------------------------------------------
(* Provider adapters (utils/fetcher.py)                                    *)

\* What an adapter's caller sees when an exception leaves the adapter.
Raised == [source |-> "Raised", width |-> 0, height |-> 0, image_url |-> ""]

\* The outcomes of the request that raise inside the adapter's try block:
\* session.get fails or times out, or the body is not the expected JSON.
Failures == {"neterr", "malformed"}

\* (mutant) the adapter asks for a credential that is always there.
HasKeyAlways(key) == TRUE

\* if not self.api_keys[...]: return None -- the first statement of every
\* adapter, before the session is opened.
HasKey(key) == key

\* (mutant) the handler catches network errors only.
AdapterCatchesNetworkOnly(failure) == failure = "neterr"

\* except Exception as e: logger.error(...); return None
AdapterCatches(failure) == failure \in Failures

\* The adapter's try block raised: None when the handler catches it.
AdapterFailed(failure) == IF AdapterCatches(failure) THEN NoData ELSE Raised

\* Unsplash: no credential -> None; status 200 with a non-empty list -> the
\* record of data[0]; every other outcome is logged and yields None.
lastperson07_fetch_from_unsplash(key, resp) ==
    IF ~HasKey(key) THEN NoData
    ELSE IF resp.status \in Failures THEN AdapterFailed(resp.status)
    ELSE IF resp.status = "200" /\ Len(resp.items) > 0
         THEN WallpaperData("Unsplash", resp.items[1])
         ELSE NoData

\* Pexels: as Unsplash, on photos[0].
lastperson07_fetch_from_pexels(key, resp) ==
    IF ~HasKey(key) THEN NoData
    ELSE IF resp.status \in Failures THEN AdapterFailed(resp.status)
    ELSE IF resp.status = "200" /\ Len(resp.items) > 0
         THEN WallpaperData("Pexels", resp.items[1])
         ELSE NoData

\* for hit in hits: the first hit with imageWidth and imageHeight at least
\* the configured minimum.
RECURSIVE FirstSuitableHit(_)
FirstSuitableHit(hits) ==
    IF hits = <<>> THEN NoData
    ELSE IF Head(hits).width >= LASTPERSON07_MIN_IMAGE_WIDTH
            /\ Head(hits).height >= LASTPERSON07_MIN_IMAGE_HEIGHT
         THEN WallpaperData("Pixabay", Head(hits))
         ELSE FirstSuitableHit(Tail(hits))

lastperson07_fetch_from_pixabay(key, resp) ==
    IF ~HasKey(key) THEN NoData
    ELSE IF resp.status \in Failures THEN AdapterFailed(resp.status)
    ELSE IF resp.status = "200" THEN FirstSuitableHit(resp.items)
         ELSE NoData

\* The request the adapter made: the status it got, or "none" when it
\* returned before opening a session.
RequestOf(key, resp) == IF HasKey(key) THEN resp.status ELSE "none"

lastperson07_fetch_from_api(api_source, keys, resp) ==
    CASE api_source = "unsplash" -> lastperson07_fetch_from_unsplash(keys["unsplash"], resp)
      [] api_source = "pexels"   -> lastperson07_fetch_from_pexels(keys["pexels"], resp)
      [] api_source = "pixabay"  -> lastperson07_fetch_from_pixabay(keys["pixabay"], resp)
      [] OTHER                   -> NoData

-----------------------------------------------------------------------------
(* Content validator (utils/fetcher.py)                                    *)

AllowedFormats == {"JPEG", "JPG", "PNG", "WEBP"}

\* What downloading a preview URL does: the HTTP outcome, the size of the
\* body in bytes (length), whether a content-length header reports it
\* (has_length; a chunked response carries none), and what Pillow finds in
\* the body.
Downloads ==
    [status     : {"200", "404", "neterr"},
     has_length : BOOLEAN,
     length     : {MaxFileSizeBytes, MaxFileSizeBytes + 1},
     decodes    : BOOLEAN,
     width      : {LASTPERSON07_MIN_IMAGE_WIDTH - 1, LASTPERSON07_MIN_IMAGE_WIDTH},
     height     : {LASTPERSON07_MIN_IMAGE_HEIGHT - 1, LASTPERSON07_MIN_IMAGE_HEIGHT},
     format     : {"JPEG", "WEBP", "GIF"}]

\* if content_length and int(content_length) > LASTPERSON07_MAX_FILE_SIZE_MB * 1024 * 1024
OversizedHeader(d) == d.has_length /\ d.length > MaxFileSizeBytes

\* (mutant) the bounds are exclusive: an image of exactly the minimum size
\* is too small.
TooSmallAtMinimum(width, height) ==
    width <= LASTPERSON07_MIN_IMAGE_WIDTH \/ height <= LASTPERSON07_MIN_IMAGE_HEIGHT

\* if width < LASTPERSON07_MIN_IMAGE_WIDTH or height < LASTPERSON07_MIN_IMAGE_HEIGHT
TooSmall(width, height) ==
    width < LASTPERSON07_MIN_IMAGE_WIDTH \/ height < LASTPERSON07_MIN_IMAGE_HEIGHT

\* One run of the validator: its result, "accept" (True), "reject" (False)
\* or "raise", and what it did on the way.
ValidatorRunOf(outcome, left, body, decode) ==
    [result |-> outcome, temp_file_left |-> left, body_read |-> body,
     decode_attempted |-> decode]

\* except Exception as e: ... if temp_file and os.path.exists(temp_path.name).
\* temp_file is the (closed) file object and temp_path its name, a str: when
\* the file was created the condition raises AttributeError, nothing is
\* removed and the exception leaves the validator.
ExceptionCleanup(temp_file_created, body, decode) ==
    IF temp_file_created
    THEN ValidatorRunOf("raise", TRUE, body, decode)
    ELSE ValidatorRunOf("reject", FALSE, body, decode)

\* (mutant) an oversized content-length header is not looked at.
ValidatorRunIgnoresHeader(pillow, image_url, d) ==
    IF ~pillow THEN ValidatorRunOf("accept", FALSE, FALSE, FALSE)
    ELSE IF image_url = "" \/ d.status = "neterr"
         THEN ExceptionCleanup(TRUE, FALSE, FALSE)
    ELSE IF d.status # "200" THEN ValidatorRunOf("reject", FALSE, FALSE, FALSE)
    ELSE IF ~d.decodes THEN ValidatorRunOf("reject", FALSE, TRUE, TRUE)
    ELSE IF TooSmall(d.width, d.height)
         THEN ValidatorRunOf("reject", FALSE, TRUE, TRUE)
    ELSE IF d.format \notin AllowedFormats
         THEN ValidatorRunOf("reject", FALSE, TRUE, TRUE)
    ELSE ValidatorRunOf("accept", FALSE, TRUE, TRUE)

\* lastperson07_download_and_validate_image, with its effects.  Without
\* Pillow it returns True at once.  Otherwise it creates the temporary file
\* and requests the URL; a request that fails (network error, timeout, or a
\* URL that is no URL, as the empty string) lands in the outer handler.  A
\* status other than 200 and an oversized content-length header remove the
\* file and return False before the body is read; otherwise the body is
\* written to the file and Image.open decides, every branch removing the
\* file.
ValidatorRun(pillow, image_url, d) ==
    IF ~pillow THEN ValidatorRunOf("accept", FALSE, FALSE, FALSE)
    ELSE IF image_url = "" \/ d.status = "neterr"
         THEN ExceptionCleanup(TRUE, FALSE, FALSE)
    ELSE IF d.status # "200" THEN ValidatorRunOf("reject", FALSE, FALSE, FALSE)
    ELSE IF OversizedHeader(d) THEN ValidatorRunOf("reject", FALSE, FALSE, FALSE)
    ELSE IF ~d.decodes THEN ValidatorRunOf("reject", FALSE, TRUE, TRUE)
    ELSE IF TooSmall(d.width, d.height)
         THEN ValidatorRunOf("reject", FALSE, TRUE, TRUE)
    ELSE IF d.format \notin AllowedFormats
         THEN ValidatorRunOf("reject", FALSE, TRUE, TRUE)
    ELSE ValidatorRunOf("accept", FALSE, TRUE, TRUE)

\* The value the validator returns, or "raise".
lastperson07_download_and_validate_image(pillow, image_url, d) ==
    ValidatorRun(pillow, image_url, d).result

\* The state of the helpers before any direct call.
NoDownload ==
    [status |-> "404", has_length |-> FALSE, length |-> MaxFileSizeBytes,
     decodes |-> FALSE, width |-> LASTPERSON07_MIN_IMAGE_WIDTH - 1,
     height |-> LASTPERSON07_MIN_IMAGE_HEIGHT - 1, format |-> "GIF"]

NoValidation ==
    [called |-> FALSE, image_url |-> "", d |-> NoDownload,
     run |-> ValidatorRunOf("reject", FALSE, FALSE, FALSE)]

NoCategory == [nil |-> TRUE, chars |-> <<>>]
NotSanitized == [done |-> FALSE, chars |-> <<>>]

-----------------------------------------------------------------------------
(* Category sanitizer (utils/fetcher.py)                                   *)

\* A str is a sequence of characters; None is [nil |-> TRUE].
LowerLetters == {"a", "b", "c", "d", "e", "f", "g", "h", "i", "j", "k", "l", "m",
                 "n", "o", "p", "q", "r", "s", "t", "u", "v", "w", "x", "y", "z"}
UpperLetters == {"A", "B", "Z"}
Digits == {"0", "7", "9"}
Whitespace == {" ", "\t"}

\* The characters of the raw categories tried: a lower-case and an
\* upper-case letter, a digit, a blank, a tab and a symbol.
Chars == {"a", "B", "7", " ", "\t", "!"}

\* if len(sanitized) > 50: sanitized = sanitized[:50].rstrip()
CategoryMaxLength == 50

\* The default category returned for an empty input or an empty result.
LASTPERSON07_DEFAULT_CATEGORY == <<"n", "a", "t", "u", "r", "e">>

\* Raw categories: None, every string of up to MaxCategoryLen characters,
\* and long strings around the cut: a run of letters followed by a tail.
Tails == UNION {[1..n -> {"a", " ", "!"}] : n \in 0..2}
RawCategories ==
    {NoCategory}
    \cup {[nil |-> FALSE, chars |-> c] :
            c \in UNION {[1..n -> Chars] : n \in 0..MaxCategoryLen}}
    \cup {[nil |-> FALSE, chars |-> [i \in 1..k |-> "B"] \o t] :
            k \in (CategoryMaxLength - 2)..CategoryMaxLength, t \in Tails}

\* re.sub(r'[^a-zA-Z0-9\s]', '', category)
StripSymbols(str) ==
    SelectSeq(str, LAMBDA c :
        c \in LowerLetters \cup UpperLetters \cup Digits \cup Whitespace)

\* ' '.join(sanitized.split()): the words of the string, one blank between
\* two words.  Of every whitespace run that has a word on either side the
\* first character stays, as a blank.
JoinSplit(str) ==
    LET n == Len(str)
        IsWord(i) == str[i] \notin Whitespace
        Kept == {i \in 1..n :
                    \/ IsWord(i)
                    \/ /\ i > 1
                       /\ IsWord(i - 1)
                       /\ \E j \in (i + 1)..n : IsWord(j)}
        Rank(i) == Cardinality({j \in Kept : j <= i})
        At(k) == CHOOSE i \in Kept : Rank(i) = k
    IN [k \in 1..Cardinality(Kept) |->
           IF IsWord(At(k)) THEN str[At(k)] ELSE " "]

\* str.rstrip()
RStrip(str) ==
    LET Words == {i \in 1..Len(str) : str[i] \notin Whitespace}
        last == IF Words = {} THEN 0
                ELSE CHOOSE i \in Words : \A j \in Words : j <= i
    IN SubSeq(str, 1, last)

\* (mutant) the cut keeps a trailing blank.
TruncateNoRStrip(str) ==
    IF Len(str) > CategoryMaxLength
    THEN SubSeq(str, 1, CategoryMaxLength)
    ELSE str

\* if len(sanitized) > 50: sanitized = sanitized[:50].rstrip()
Truncate(str) ==
    IF Len(str) > CategoryMaxLength
    THEN RStrip(SubSeq(str, 1, CategoryMaxLength))
    ELSE str

\* str.lower() on the characters that can be left.
LowerChar(c) ==
    CASE c = "A" -> "a"
      [] c = "B" -> "b"
      [] c = "Z" -> "z"
      [] OTHER   -> c

Lower(str) == [i \in 1..Len(str) |-> LowerChar(str[i])]

\* (mutant) the symbols are removed after the whitespace is collapsed.
SanitizeStripsLast(category) ==
    IF category.nil \/ category.chars = <<>>
    THEN LASTPERSON07_DEFAULT_CATEGORY
    ELSE LET sanitized == Truncate(StripSymbols(JoinSplit(category.chars)))
         IN IF sanitized = <<>>
            THEN LASTPERSON07_DEFAULT_CATEGORY
            ELSE Lower(sanitized)

lastperson07_sanitize_category(category) ==
    IF category.nil \/ category.chars = <<>>
    THEN LASTPERSON07_DEFAULT_CATEGORY
    ELSE LET sanitized == Truncate(JoinSplit(StripSymbols(category.chars)))
         IN IF sanitized = <<>>
            THEN LASTPERSON07_DEFAULT_CATEGORY
            ELSE Lower(sanitized)

\* A direct call of lastperson07_sanitize_category on the raw category.
CallSanitize ==
    /\ ~sanitized_category.done
    /\ sanitized_category' =
          [done |-> TRUE, chars |-> lastperson07_sanitize_category(raw_category)]
    /\ UNCHANGED <<temp_files, last_validation, raw_category>>
    /\ UNCHANGED <<acquireVars, storeVars, opsVars, demandVars, schedVars, dbVars>>

\* The database client after construction, lastperson07_initialize not
\* called: is_connected False; no connect attempt made, nothing slept.
NotInitializing == [pc |-> "idle", i |-> 0, attempts |-> 0, slept |-> <<>>]

IdleDb ==
    /\ is_connected = FALSE
    /\ init = NotInitializing

IdleHelpers ==
    /\ temp_files = 0
    /\ last_validation = NoValidation
    /\ raw_category = NoCategory
    /\ sanitized_category = NotSanitized
    /\ IdleDb

\* A direct call of the validator on some URL, with some download outcome.
CallValidator ==
    /\ temp_files < MaxTempFiles
    /\ \E image_url \in {"", "http://img"}, d \in Downloads :
         LET run == ValidatorRun(pillow_available, image_url, d)
         IN /\ last_validation' = [called |-> TRUE, image_url |-> image_url,
                                   d |-> d, run |-> run]
            /\ temp_files' = temp_files + (IF run.temp_file_left THEN 1 ELSE 0)
    /\ UNCHANGED <<raw_category, sanitized_category>>
    /\ UNCHANGED <<acquireVars, storeVars, opsVars, demandVars, schedVars, dbVars>>

-----------------------------------------------------------------------------
(* Acquisition coordinator: fetch_wallpaper (utils/fetcher.py)             *)

NotCalled == [called |-> FALSE, data |-> NoData, request |-> "none"]

InitFetcher ==
    /\ api_keys \in [Providers -> BOOLEAN]
    /\ pillow_available \in BOOLEAN
    /\ fpc = "idle"
    /\ api_idx = 1
    /\ wallpaper_data = NoData
    /\ result = NoData
    /\ fetched = [p \in Providers |-> NotCalled]
    /\ validated = [p \in Providers |-> "none"]
    /\ calls = <<>>
    /\ cancelled = FALSE

\* The fetcher before any call, for the specifications that do not run it.
IdleFetcher ==
    /\ api_keys = [p \in Providers |-> TRUE]
    /\ pillow_available = TRUE
    /\ fpc = "idle"
    /\ api_idx = 1
    /\ wallpaper_data = NoData
    /\ result = NoData
    /\ fetched = [p \in Providers |-> NotCalled]
    /\ validated = [p \in Providers |-> "none"]
    /\ calls = <<>>
    /\ cancelled = FALSE

\* (mutant) the validator is called whether Pillow is available or not.
NeedsValidatorCallAlways(pillow) == TRUE

\* if not self.pillow_available or await self.lastperson07_download_and_validate_image(...)
NeedsValidatorCall(pillow) == pillow

\* (mutant) a provider that was fetched once is fetched a second time.
TryNextApiRetriesOnce ==
    /\ wallpaper_data' = NoData
    /\ IF Len(SelectSeq(calls, LAMBDA c : c = <<"fetch", ApiOrder[api_idx]>>)) < 1
       THEN /\ fpc' = "fetch"
            /\ UNCHANGED <<api_idx, result>>
       ELSE IF api_idx < Len(ApiOrder)
       THEN /\ api_idx' = api_idx + 1
            /\ fpc' = "fetch"
            /\ result' = result
       ELSE /\ api_idx' = api_idx
            /\ fpc' = "done"
            /\ result' = NoData

\* (mutant) an empty adapter result is handed to the validator.
TryNextApiValidatesEmpty ==
    /\ wallpaper_data' = NoData
    /\ IF validated[ApiOrder[api_idx]] = "none" /\ fpc = "fetch"
       THEN /\ fpc' = "validate"
            /\ UNCHANGED <<api_idx, result>>
       ELSE IF api_idx < Len(ApiOrder)
       THEN /\ api_idx' = api_idx + 1
            /\ fpc' = "fetch"
            /\ result' = result
       ELSE /\ api_idx' = api_idx
            /\ fpc' = "done"
            /\ result' = NoData

\* `continue`, or the end of the for loop: the next provider, or return None.
TryNextApi ==
    /\ wallpaper_data' = NoData
    /\ IF api_idx < Len(ApiOrder)
       THEN /\ api_idx' = api_idx + 1
            /\ fpc' = "fetch"
            /\ result' = result
       ELSE /\ api_idx' = api_idx
            /\ fpc' = "done"
            /\ result' = NoData

\* return wallpaper_data
ReturnRecord(data) ==
    /\ fpc' = "done"
    /\ result' = data
    /\ wallpaper_data' = data
    /\ api_idx' = api_idx

\* fetch_wallpaper is called: sanitize the category, enter the loop.
FetchWallpaperStart ==
    /\ fpc = "idle"
    /\ fpc' = "fetch"
    /\ api_idx' = 1
    /\ UNCHANGED <<api_keys, pillow_available, wallpaper_data, result,
                   fetched, validated, calls, cancelled>>
    /\ UNCHANGED <<storeVars, opsVars, demandVars, schedVars, helperVars, dbVars>>

\* wallpaper_data = await self.lastperson07_fetch_from_api(api_source, ...)
FetchFromApi ==
    /\ fpc = "fetch"
    /\ \E resp \in Responses :
         LET api_source == ApiOrder[api_idx]
             data == lastperson07_fetch_from_api(api_source, api_keys, resp)
         IN /\ fetched' = [fetched EXCEPT ![api_source] =
                             [called |-> TRUE, data |-> data,
                              request |-> RequestOf(api_keys[api_source], resp)]]
            /\ calls' = Append(calls, <<"fetch", api_source>>)
            /\ IF data \notin {NoData, Raised}
               THEN IF NeedsValidatorCall(pillow_available)
                    THEN /\ fpc' = "validate"
                         /\ wallpaper_data' = data
                         /\ UNCHANGED <<api_idx, result>>
                    ELSE ReturnRecord(data)
               ELSE TryNextApi
    /\ UNCHANGED <<api_keys, pillow_available, validated, cancelled>>
    /\ UNCHANGED <<storeVars, opsVars, demandVars, schedVars, helperVars, dbVars>>

\* await self.lastperson07_download_and_validate_image(wallpaper_data.image_url)
ValidateImage ==
    /\ fpc = "validate"
    /\ \E d \in Downloads :
         LET api_source == ApiOrder[api_idx]
             outcome == lastperson07_download_and_validate_image(
                            pillow_available, wallpaper_data.image_url, d)
             run == ValidatorRun(pillow_available, wallpaper_data.image_url, d)
         IN /\ validated' = [validated EXCEPT ![api_source] = outcome]
            /\ temp_files' = temp_files + (IF run.temp_file_left THEN 1 ELSE 0)
            /\ calls' = Append(calls, <<"validate", api_source>>)
            /\ IF outcome = "accept"
               THEN ReturnRecord(wallpaper_data)
               ELSE TryNextApi
    /\ UNCHANGED <<api_keys, pillow_available, fetched, cancelled>>
    /\ UNCHANGED <<last_validation, raw_category, sanitized_category>>
    /\ UNCHANGED <<storeVars, opsVars, demandVars, schedVars, dbVars>>

\* fetch_wallpaper ended by raising asyncio.CancelledError to its caller.
RaisedCancelled ==
    [source |-> "CancelledError", width |-> 0, height |-> 0, image_url |-> ""]

\* `except Exception` of fetch_wallpaper, and the same handlers of the
\* adapters and of the validator: asyncio.CancelledError derives from
\* BaseException and passes them all.
CoordinatorCatches(exc) == exc # "CancelledError"

\* The caller cancels the task (asyncio.wait_for at a deadline, or
\* Task.cancel) while fetch_wallpaper awaits an adapter or the validator:
\* CancelledError is thrown into the pending await.  fetch_wallpaper takes
\* no deadline or cancellation argument of its own.  The validator has
\* created its temporary file before its first await and has no handler
\* that removes it on this path.
CancelFetch ==
    /\ fpc \in {"fetch", "validate"}
    /\ ~cancelled
    /\ cancelled' = TRUE
    /\ temp_files' = temp_files + (IF fpc = "validate" THEN 1 ELSE 0)
    /\ IF CoordinatorCatches("CancelledError")
       THEN TryNextApi
       ELSE /\ fpc' = "done"
            /\ result' = RaisedCancelled
            /\ UNCHANGED <<api_idx, wallpaper_data>>
    /\ UNCHANGED <<api_keys, pillow_available, fetched, validated, calls>>
    /\ UNCHANGED <<last_validation, raw_category, sanitized_category>>
    /\ UNCHANGED <<storeVars, opsVars, demandVars, schedVars, dbVars>>


-----------------------------------------------------------------------------
(* Persistence store: the users collection (db/models.py, db/queries.py)   *)

Consumers == {"c1", "c2"}

\* last_fetch_date is None ({}) or a datetime, of which only the UTC
\* calendar day matters ({d}).
NoDate == {}

\* find_one found no document.
NoUser == [exists |-> FALSE, tier |-> "free", fetch_count |-> 0,
           last_fetch_date |-> NoDate, banned |-> FALSE]

\* LastPerson07User as create_user stores it: the dataclass defaults.
NewUser == [exists |-> TRUE, tier |-> "free", fetch_count |-> 0,
            last_fetch_date |-> NoDate, banned |-> FALSE]

Max(a, b) == IF a >= b THEN a ELSE b

\* (mutant) the limit counts as reached only above it.
CheckDailyLimitResultOffByOne(user, day) ==
    IF ~user.exists THEN <<FALSE, LASTPERSON07_FREE_FETCH_LIMIT>>
    ELSE IF user.tier = "premium" THEN <<FALSE, -1>>
    ELSE IF user.last_fetch_date # NoDate /\ user.last_fetch_date = {day}
         THEN LET remaining == Max(0, LASTPERSON07_FREE_FETCH_LIMIT - user.fetch_count)
              IN <<user.fetch_count > LASTPERSON07_FREE_FETCH_LIMIT, remaining>>
         ELSE <<FALSE, LASTPERSON07_FREE_FETCH_LIMIT>>

\* (mutant) the stored date is not looked at.
CheckDailyLimitResultIgnoresDate(user, day) ==
    IF ~user.exists THEN <<FALSE, LASTPERSON07_FREE_FETCH_LIMIT>>
    ELSE IF user.tier = "premium" THEN <<FALSE, -1>>
    ELSE LET remaining == Max(0, LASTPERSON07_FREE_FETCH_LIMIT - user.fetch_count)
         IN <<remaining = 0, remaining>>

\* (mutant) remaining is not clamped at 0.
CheckDailyLimitResultNoClamp(user, day) ==
    IF ~user.exists THEN <<FALSE, LASTPERSON07_FREE_FETCH_LIMIT>>
    ELSE IF user.tier = "premium" THEN <<FALSE, -1>>
    ELSE IF user.last_fetch_date # NoDate /\ user.last_fetch_date = {day}
         THEN LET remaining == LASTPERSON07_FREE_FETCH_LIMIT - user.fetch_count
              IN <<remaining = 0, remaining>>
         ELSE <<FALSE, LASTPERSON07_FREE_FETCH_LIMIT>>

\* (mutant) the premium tier is not exempted.
CheckDailyLimitResultNoPremium(user, day) ==
    IF ~user.exists THEN <<FALSE, LASTPERSON07_FREE_FETCH_LIMIT>>
    ELSE IF user.last_fetch_date # NoDate /\ user.last_fetch_date = {day}
         THEN LET remaining == Max(0, LASTPERSON07_FREE_FETCH_LIMIT - user.fetch_count)
              IN <<remaining = 0, remaining>>
         ELSE <<FALSE, LASTPERSON07_FREE_FETCH_LIMIT>>

\* check_daily_limit, the value it returns for the document it read:
\* <<reached_limit, remaining>>.
CheckDailyLimitResult(user, day) ==
    IF ~user.exists THEN <<FALSE, LASTPERSON07_FREE_FETCH_LIMIT>>
    ELSE IF user.tier = "premium" THEN <<FALSE, -1>>
    ELSE IF user.last_fetch_date # NoDate /\ user.last_fetch_date = {day}
         THEN LET remaining == Max(0, LASTPERSON07_FREE_FETCH_LIMIT - user.fetch_count)
              IN <<remaining = 0, remaining>>
         ELSE <<FALSE, LASTPERSON07_FREE_FETCH_LIMIT>>

\* check_daily_limit takes its else branch ("New day, reset count").
CheckDailyLimitResets(user, day) ==
    /\ user.exists
    /\ user.tier # "premium"
    /\ ~(user.last_fetch_date # NoDate /\ user.last_fetch_date = {day})

\* (mutant) the reset is not written.
ResetFetchCountSkipped(doc) == doc

\* update_one("users", {"_id": user_id}, {"$set": {"fetch_count": 0}}) on the
\* stored document; without upsert a missing document stays missing.
ResetFetchCount(doc) ==
    IF doc.exists THEN [doc EXCEPT !.fetch_count = 0] ELSE doc

\* (mutant) the increment is by two.
IncFetchCountTwice(doc, day) ==
    IF doc.exists
    THEN [doc EXCEPT !.fetch_count = @ + 2, !.last_fetch_date = {day}]
    ELSE doc

\* update_user_fetch_count: {"$inc": {"fetch_count": 1},
\* "$set": {"last_fetch_date": now}} on the stored document.
IncFetchCount(doc, day) ==
    IF doc.exists
    THEN [doc EXCEPT !.fetch_count = @ + 1, !.last_fetch_date = {day}]
    ELSE doc

\* upgrade_to_premium / downgrade_to_free: {"$set": {"tier": ...}}.
SetTier(doc, tier) ==
    IF doc.exists THEN [doc EXCEPT !.tier = tier] ELSE doc

-----------------------------------------------------------------------------
(* SpecQuotaOps: the quota operations, called one after another            *)

NoCall == [op |-> "none", user |-> "c1", before |-> NoUser, day |-> 0,
           limited |-> FALSE, remaining |-> 0]

InitStore ==
    /\ users = [u \in Consumers |-> NoUser]
    /\ today = 0

InitOps ==
    /\ lastCall = NoCall
    /\ streak = [u \in Consumers |-> 0]

Odd(n) == n % 2 = 1

\* streak[u] counts the operations of a run "check on a fresh day, record,
\* check, record, ..." on consumer u within one day: odd after a check, even
\* after a record, 0 when no such run is in progress.
StreakAfterCheck(n, before, day) ==
    IF CheckDailyLimitResets(before, day) THEN 1
    ELSE IF n > 0 /\ ~Odd(n) /\ n < 2 * LASTPERSON07_FREE_FETCH_LIMIT + 1 THEN n + 1
    ELSE 0

StreakAfterRecord(n) == IF Odd(n) THEN n + 1 ELSE 0

\* create_user(user_id, ...): insert_one; a duplicate _id is rejected.
CreateUser(u) ==
    /\ ~users[u].exists
    /\ users' = [users EXCEPT ![u] = NewUser]
    /\ lastCall' = [NoCall EXCEPT !.op = "create", !.user = u,
                                  !.before = users[u], !.day = today]
    /\ streak' = [streak EXCEPT ![u] = 0]
    /\ UNCHANGED <<today, acquireVars, schedVars, helperVars, dbVars, demandVars>>

\* check_daily_limit(user_id), the whole call.
CheckDailyLimit(u) ==
    LET user == users[u]
        res == CheckDailyLimitResult(user, today)
    IN /\ users' = IF CheckDailyLimitResets(user, today)
                   THEN [users EXCEPT ![u] = ResetFetchCount(@)]
                   ELSE users
       /\ lastCall' = [op |-> "check", user |-> u, before |-> user, day |-> today,
                       limited |-> res[1], remaining |-> res[2]]
       /\ streak' = [streak EXCEPT ![u] = StreakAfterCheck(@, user, today)]
       /\ UNCHANGED <<today, acquireVars, schedVars, helperVars, dbVars, demandVars>>

\* update_user_fetch_count(user_id), the whole call.
UpdateUserFetchCount(u) ==
    /\ users[u].fetch_count < MaxCount
    /\ users' = [users EXCEPT ![u] = IncFetchCount(@, today)]
    /\ lastCall' = [NoCall EXCEPT !.op = "update", !.user = u,
                                  !.before = users[u], !.day = today]
    /\ streak' = [streak EXCEPT ![u] = StreakAfterRecord(@)]
    /\ UNCHANGED <<today, acquireVars, schedVars, helperVars, dbVars, demandVars>>

\* upgrade_to_premium(user_id)
UpgradeToPremium(u) ==
    /\ users[u].exists /\ users[u].tier = "free"
    /\ users' = [users EXCEPT ![u] = SetTier(@, "premium")]
    /\ lastCall' = [NoCall EXCEPT !.op = "upgrade", !.user = u,
                                  !.before = users[u], !.day = today]
    /\ streak' = [streak EXCEPT ![u] = 0]
    /\ UNCHANGED <<today, acquireVars, schedVars, helperVars, dbVars, demandVars>>

\* downgrade_to_free(user_id)
DowngradeToFree(u) ==
    /\ users[u].exists /\ users[u].tier = "premium"
    /\ users' = [users EXCEPT ![u] = SetTier(@, "free")]
    /\ lastCall' = [NoCall EXCEPT !.op = "downgrade", !.user = u,
                                  !.before = users[u], !.day = today]
    /\ streak' = [streak EXCEPT ![u] = 0]
    /\ UNCHANGED <<today, acquireVars, schedVars, helperVars, dbVars, demandVars>>

\* The UTC date changes (datetime.now(timezone.utc).date()).
AdvanceDay ==
    /\ today < MaxDay
    /\ today' = today + 1
    /\ lastCall' = [NoCall EXCEPT !.op = "midnight", !.day = today + 1]
    /\ streak' = [u \in Consumers |-> 0]
    /\ consumedToday' = [u \in Consumers |-> 0]
    /\ deliveredToday' = [u \in Consumers |-> 0]
    /\ UNCHANGED <<users, acquireVars, schedVars, helperVars, dbVars, req, lastCheck>>


-----------------------------------------------------------------------------
(* On-demand requests (handlers/user_handlers.py)                          *)

\* Updates in flight.  The handlers are coroutines and every await in them
\* is a point where the clock can move on.
Requests == {"r1", "r2"}

\* Application.builder().token(...).build(): concurrent_updates is not set,
\* so the application awaits the handler of one update before it takes the
\* next one.
ConcurrentUpdates == FALSE

IdleReq == [kind |-> "none", user |-> "c1", pc |-> "idle", tier |-> "free",
            checked |-> FALSE, reached_limit |-> FALSE]

NoCheck == [user |-> "c1", tier |-> "none", used |-> 0, consumed |-> 0]

InitDemand ==
    /\ req = [r \in Requests |-> IdleReq]
    /\ consumedToday = [u \in Consumers |-> 0]
    /\ deliveredToday = [u \in Consumers |-> 0]
    /\ lastCheck = NoCheck

\* The store as /start, /fetch and the admin commands can have left it.
InitStoreOnDemand ==
    /\ users \in [Consumers -> {NoUser, NewUser, SetTier(NewUser, "premium")}]
    /\ today = 0

MayStart(r) ==
    /\ req[r].pc = "idle"
    /\ ConcurrentUpdates \/ \A q \in Requests : req[q].pc = "idle"

\* if reached_limit and db_user.tier == UserTier.FREE: reply and return
BlockedByLimit(reached_limit, tier) == reached_limit /\ tier = "free"

\* The count a check bases its decision on: the stored count when the stored
\* date is the current day, 0 (after the reset) otherwise.
UsedCount(user, day) ==
    IF CheckDailyLimitResets(user, day) THEN 0 ELSE user.fetch_count

\* The handler continues after check_daily_limit returned.
AfterCheck(r, reached_limit) ==
    IF BlockedByLimit(reached_limit, req[r].tier)
    THEN req' = [req EXCEPT ![r] = IdleReq]
    ELSE req' = [req EXCEPT ![r].pc = "fetch", ![r].checked = TRUE,
                            ![r].reached_limit = reached_limit]

\* /fetch: get_user, create_user when there is none, the banned check.
HandleFetchStart(r, u) ==
    /\ MayStart(r)
    /\ LET doc == IF users[u].exists THEN users[u] ELSE NewUser
       IN /\ users' = [users EXCEPT ![u] = doc]
          /\ IF doc.banned
             THEN req' = req
             ELSE req' = [req EXCEPT ![r] = [IdleReq EXCEPT !.kind = "command",
                              !.user = u, !.pc = "check", !.tier = doc.tier]]
    /\ UNCHANGED <<today, consumedToday, deliveredToday, lastCheck, acquireVars, schedVars, helperVars, dbVars, opsVars>>

\* check_daily_limit up to its decision: get_user, then either the result
\* or the reset that is still to be written.
CheckDailyLimitRead(r) ==
    /\ req[r].pc = "check"
    /\ LET u == req[r].user
           user == users[u]
           res == CheckDailyLimitResult(user, today)
       IN /\ lastCheck' = [user |-> u,
                           tier |-> IF user.exists THEN user.tier ELSE "none",
                           used |-> UsedCount(user, today),
                           consumed |-> consumedToday[u]]
          /\ IF CheckDailyLimitResets(user, today)
             THEN req' = [req EXCEPT ![r].pc = "check_reset"]
             ELSE AfterCheck(r, res[1])
    /\ UNCHANGED <<users, today, consumedToday, deliveredToday, acquireVars, schedVars, helperVars, dbVars, opsVars>>

\* check_daily_limit, the else branch: await update_one(... fetch_count: 0),
\* return False, LASTPERSON07_FREE_FETCH_LIMIT.
CheckDailyLimitReset(r) ==
    /\ req[r].pc = "check_reset"
    /\ users' = [users EXCEPT ![req[r].user] = ResetFetchCount(@)]
    /\ AfterCheck(r, FALSE)
    /\ UNCHANGED <<today, consumedToday, deliveredToday, lastCheck, acquireVars, schedVars, helperVars, dbVars, opsVars>>

\* A fetch_<category> button: send_chat_action, then straight to the fetch.
HandleCallbackFetchStart(r, u) ==
    /\ MayStart(r)
    /\ req' = [req EXCEPT ![r] = [IdleReq EXCEPT !.kind = "button",
                                                 !.user = u, !.pc = "fetch"]]
    /\ UNCHANGED <<users, today, consumedToday, deliveredToday, lastCheck, acquireVars, schedVars, helperVars, dbVars, opsVars>>

\* wallpaper_data = await fetch_wallpaper(category): a record or None.
HandlerFetchWallpaper(r) ==
    /\ req[r].pc = "fetch"
    /\ \E got \in BOOLEAN :
         req' = IF got THEN [req EXCEPT ![r].pc = "send"]
                       ELSE [req EXCEPT ![r] = IdleReq]
    /\ UNCHANGED <<users, today, consumedToday, deliveredToday, lastCheck, acquireVars, schedVars, helperVars, dbVars, opsVars>>

\* reply_photo / send_photo: delivered, or it raises and the handler's
\* except clause ends the request.
HandlerSendPhoto(r) ==
    /\ req[r].pc = "send"
    /\ \E delivered \in BOOLEAN :
         /\ req' = IF delivered THEN [req EXCEPT ![r].pc = "record"]
                                ELSE [req EXCEPT ![r] = IdleReq]
         /\ deliveredToday' =
               IF delivered /\ users[req[r].user].exists
               THEN [deliveredToday EXCEPT ![req[r].user] = @ + 1]
               ELSE deliveredToday
    /\ UNCHANGED <<users, today, consumedToday, lastCheck, acquireVars, schedVars, helperVars, dbVars, opsVars>>

\* await update_user_fetch_count(user id), the last statement of both paths.
HandlerRecord(r) ==
    /\ req[r].pc = "record"
    /\ LET u == req[r].user
       IN /\ users[u].fetch_count < MaxCount
          /\ consumedToday[u] < MaxCount
          /\ users' = [users EXCEPT ![u] = IncFetchCount(@, today)]
          /\ consumedToday' = [consumedToday EXCEPT
                                  ![u] = IF users[u].exists THEN @ + 1 ELSE @]
    /\ req' = [req EXCEPT ![r] = IdleReq]
    /\ UNCHANGED <<today, deliveredToday, lastCheck, acquireVars, schedVars, helperVars, dbVars, opsVars>>

\* update_one("users", {"_id": user_id}, {"$set": {"banned": ...}}): a
\* consumer without a document is left without one.
SetBanned(doc, flag) ==
    IF doc.exists THEN [doc EXCEPT !.banned = flag] ELSE doc

\* The admin commands /ban and /unban (and /approve): handlers of their own
\* updates, which the application takes when no other handler runs.
BanUser(u) ==
    /\ \A q \in Requests : req[q].pc = "idle"
    /\ users[u].exists
    /\ ~users[u].banned
    /\ users' = [users EXCEPT ![u] = SetBanned(@, TRUE)]
    /\ UNCHANGED <<today, demandVars, acquireVars, schedVars, helperVars, dbVars, opsVars>>

UnbanUser(u) ==
    /\ \A q \in Requests : req[q].pc = "idle"
    /\ users[u].exists
    /\ users[u].banned
    /\ users' = [users EXCEPT ![u] = SetBanned(@, FALSE)]
    /\ UNCHANGED <<today, demandVars, acquireVars, schedVars, helperVars, dbVars, opsVars>>

-----------------------------------------------------------------------------
(* Schedule registry: the schedules collection (db/models.py, db/queries.py,
   db/client.py)                                                           *)

\* Destinations (channel_id is an int), the values of ScheduleInterval, and
\* the categories registrations are made with.
Channels == {1, 2}
Intervals == {"hourly", "daily"}
Categories == {"nature", "space"}
Keys == Channels \X Intervals

\* What a caller can pass as interval: a value of the enum or another word.
InputIntervals == Intervals \cup {"weekly"}

\* last_post_time: None, or {t} for the time t of the update.
NoTime == {}

\* The _id of the documents create_schedule writes: LastPerson07Schedule is
\* built with _id=None and to_dict() stores the key "_id" with that value,
\* so the driver does not generate an id.  Documents written by another
\* client carry a generated id, here 1, 2, ...
NullId == 0

\* LastPerson07Schedule(...).to_dict(): last_post_time None, active True.
ScheduleDoc(id, channel_id, interval, category) ==
    [id |-> id, channel_id |-> channel_id, interval |-> interval,
     category |-> category, last_post_time |-> NoTime, active |-> TRUE]

\* db.insert_one: the collection's _id index is unique; a second document
\* with the same _id raises, which insert_one logs and turns into None.
InsertOne(coll, doc) ==
    IF \E i \in DOMAIN coll : coll[i].id = doc.id
    THEN coll
    ELSE Append(coll, doc)

\* create_schedule: ScheduleInterval(interval) raises for a word that is not
\* a value of the enum (caught, False); otherwise the document is inserted.
create_schedule(coll, channel_id, interval, category) ==
    IF interval \notin Intervals
    THEN coll
    ELSE InsertOne(coll, ScheduleDoc(NullId, channel_id, interval, category))

\* find_many(..., limit=100)
FindLimit == 100

\* get_schedules: find({"active": True}) when active_only, cut at the limit.
get_schedules(coll, active_only) ==
    LET found == SelectSeq(coll, LAMBDA d : ~active_only \/ d.active)
    IN IF Len(found) > FindLimit THEN SubSeq(found, 1, FindLimit) ELSE found

\* update_schedule_last_post: update_one({"channel_id": channel_id},
\* {"$set": {"last_post_time": now}}) changes the first document of that
\* channel, whatever its interval; no document of the channel, no change.
update_schedule_last_post(coll, channel_id, t) ==
    LET hits == {i \in DOMAIN coll : coll[i].channel_id = channel_id}
    IN IF hits = {}
       THEN coll
       ELSE LET first == CHOOSE i \in hits : \A j \in hits : i <= j
            IN [coll EXCEPT ![first].last_post_time = {t}]

-----------------------------------------------------------------------------
(* Job scheduler (utils/scheduler.py)                                      *)

\* IntervalTrigger(hours=1) / IntervalTrigger(days=1): the period in hours;
\* 0 for an interval that gets no trigger.
Trigger(interval) ==
    CASE interval = "hourly" -> 1
      [] interval = "daily"  -> 24
      [] OTHER               -> 0

\* job_id = f"schedule_{channel_id}_{interval}"
JobId(channel_id, interval) == <<"schedule", channel_id, interval>>

\* The (channel_id, interval) key a job id was made from.
KeyOf(id) == <<id[2], id[3]>>

\* (mutant) the trigger's first fire time is the time it is made at.
FirstRunTimeAtOnce(t, interval) == t

\* The first fire time of IntervalTrigger(hours=1) / IntervalTrigger(days=1)
\* made at time t: no start_date is passed, so the trigger starts at the
\* time it is made plus its interval.
FirstRunTime(t, interval) == t + Trigger(interval)

\* The job add_job is called with at time t: args=[channel_id, category];
\* the scheduler is running and computes next_run_time from the trigger.
\* armed_at and first_run ({} or the time of the job's first fire) record
\* the history of the job.
NewJob(channel_id, interval, category, t) ==
    [id |-> JobId(channel_id, interval), channel_id |-> channel_id,
     category |-> category, hours |-> Trigger(interval),
     next_run_time |-> FirstRunTime(t, interval),
     armed_at |-> t, first_run |-> NoTime]

\* scheduler.add_job(..., id=job_id, replace_existing=True)
add_job(js, job) == {j \in js : j.id # job.id} \cup {job}

\* scheduler.remove_job(job_id); a missing job raises and is passed over.
remove_job(js, id) == {j \in js : j.id # id}

\* The loop of lastperson07_load_schedules over the documents read: a
\* document with an unknown interval is skipped, every other one is given
\* to add_job, so that of the documents with one job id the last one read
\* stays in the job store.
LoadJobs(docs, js, t) ==
    LET known == {i \in DOMAIN docs : docs[i].interval \in Intervals}
        id(i) == JobId(docs[i].channel_id, docs[i].interval)
        stays == {i \in known : \A k \in known : id(k) = id(i) => k <= i}
    IN {j \in js : \A i \in known : j.id # id(i)}
       \cup {NewJob(docs[i].channel_id, docs[i].interval, docs[i].category, t) :
                 i \in stays}

\* (mutant) the job's handler catches nothing.
JobCatchesNothing(exc) == FALSE

\* except Exception as e: logger.error(...)
JobCatches(exc) == exc \in {"Exception"}

NoLatest == [key |-> <<0, "none">>, category |-> "none"]

NoTick == [id |-> JobId(0, "none"), at |-> 0,
           outcome |-> "none", sends |-> 0, late |-> FALSE]

\* No scheduler yet, and an empty registry.
IdleScheduler ==
    /\ schedules = <<>>
    /\ jobs = {}
    /\ running = FALSE
    /\ ticks = {}
    /\ now = 0
    /\ clock = 0
    /\ withdrawn = {}
    /\ latest = NoLatest
    /\ last_tick = NoTick
    /\ escaped = FALSE

\* The registry as the process finds it: the collection outlives the
\* process, and holds what create_schedule and other clients wrote to it.
StoredRegistries ==
    {<<>>,
     <<ScheduleDoc(NullId, 2, "daily", "space")>>,
     <<ScheduleDoc(1, 1, "hourly", "nature")>>,
     <<ScheduleDoc(1, 1, "hourly", "nature"),
       ScheduleDoc(NullId, 1, "daily", "space")>>}

InitScheduler ==
    /\ schedules \in StoredRegistries
    /\ jobs = {}
    /\ running = FALSE
    /\ ticks = {}
    /\ now = 0
    /\ clock = 0
    /\ withdrawn = {}
    /\ latest = NoLatest
    /\ last_tick = NoTick
    /\ escaped = FALSE

pipelineVars == <<acquireVars, storeVars, opsVars, demandVars, helperVars,
                  dbVars>>

\* lastperson07_init_scheduler: a new LastPerson07Scheduler with a new
\* AsyncIOScheduler, then start(): scheduler.start(), running = True,
\* lastperson07_load_schedules().
StartScheduler ==
    /\ ~running
    /\ running' = TRUE
    /\ jobs' = LoadJobs(get_schedules(schedules, TRUE), {}, clock)
    /\ UNCHANGED <<schedules, ticks, now, clock, withdrawn, latest, last_tick, escaped>>
    /\ UNCHANGED pipelineVars

\* stop() at the end of the process: scheduler.shutdown(wait=True), running
\* = False.  The executor cancels the runs in flight, and the job store goes
\* with the process.
StopScheduler ==
    /\ running
    /\ running' = FALSE
    /\ jobs' = {}
    /\ ticks' = {}
    /\ UNCHANGED <<schedules, now, clock, withdrawn, latest, last_tick, escaped>>
    /\ UNCHANGED pipelineVars

\* /schedule <interval> <category> by an admin: the interval is checked,
\* then create_schedule(chat_id, interval, category).  No job is added.
\* (Commands are taken once the startup, which starts the scheduler, is over.)
HandleSchedule(channel_id, interval, category) ==
    /\ running
    /\ IF interval \in {"hourly", "daily"}
       THEN /\ schedules' = create_schedule(schedules, channel_id, interval, category)
            /\ withdrawn' = withdrawn \ {<<channel_id, interval>>}
       ELSE UNCHANGED <<schedules, withdrawn>>
    /\ UNCHANGED <<jobs, running, ticks, now, clock, latest, last_tick, escaped>>
    /\ UNCHANGED pipelineVars

\* lastperson07_add_schedule: create_schedule (its result is not looked
\* at), the trigger (an unknown interval returns False here), add_job.
AddSchedule(channel_id, interval, category) ==
    /\ running
    /\ schedules' = create_schedule(schedules, channel_id, interval, category)
    /\ IF Trigger(interval) # 0
       THEN /\ jobs' = add_job(jobs, NewJob(channel_id, interval, category, clock))
            /\ latest' = [key |-> <<channel_id, interval>>, category |-> category]
            /\ withdrawn' = withdrawn \ {<<channel_id, interval>>}
       ELSE UNCHANGED <<jobs, latest, withdrawn>>
    /\ UNCHANGED <<running, ticks, now, clock, last_tick, escaped>>
    /\ UNCHANGED pipelineVars

\* lastperson07_remove_schedule: remove_job, then
\* update_schedule_last_post(channel_id), return True.
RemoveSchedule(channel_id, interval) ==
    /\ running
    /\ jobs' = remove_job(jobs, JobId(channel_id, interval))
    /\ schedules' = update_schedule_last_post(schedules, channel_id, now)
    /\ withdrawn' = withdrawn \cup {<<channel_id, interval>>}
    /\ latest' = IF latest.key = <<channel_id, interval>> THEN NoLatest ELSE latest
    /\ UNCHANGED <<running, ticks, now, clock, last_tick, escaped>>
    /\ UNCHANGED pipelineVars

\* The run t of the job ends, by return or by an exception, which the
\* except clause of the job catches and logs; `last` is the run with its
\* last step counted.
TickEnds(t, last, outcome, raised) ==
    /\ ticks' = ticks \ {t}
    /\ last_tick' = [id |-> t.id, at |-> t.at, outcome |-> outcome,
                     sends |-> last.sends, late |-> last.late]
    /\ escaped' = (escaped \/ (raised /\ ~JobCatches("Exception")))

\* The step of a run acts on an entry that has been withdrawn.
Acts(t) == [t EXCEPT !.late = @ \/ (KeyOf(t.id) \in withdrawn)]

\* (mutant) the job records a consumption for the consumers, as the
\* on-demand handlers do for theirs.
JobUsersWriteCharges(us, day) ==
    [u \in Consumers |-> IncFetchCount(us[u], day)]

\* The users collection after a step of lastperson07_post_wallpaper_job:
\* the job calls fetch_wallpaper, send_photo, the reaction helper and
\* update_schedule_last_post, and no query of the users collection.
JobUsersWrite(us, day) == us

\* What a step of the job leaves alone outside the scheduler.
TickFrame ==
    /\ users' = JobUsersWrite(users, today)
    /\ UNCHANGED <<today, acquireVars, opsVars, demandVars, helperVars, dbVars>>

\* The later of two times.
Later(a, b) == IF a >= b THEN a ELSE b

\* The wall clock reaches the next_run_time of a job (or has passed it):
\* the trigger fires, the executor starts a run of
\* lastperson07_post_wallpaper_job(channel_id, category), and the job's
\* next_run_time moves on by the interval; a job whose previous run has
\* not ended is skipped (max_instances is 1).
JobFires(channel_id, interval) ==
    /\ running
    /\ now < MaxTicks
    /\ \A t \in ticks : t.id # JobId(channel_id, interval)
    /\ \E j \in jobs :
         /\ j.id = JobId(channel_id, interval)
         /\ clock' = Later(clock, j.next_run_time)
         /\ ticks' = ticks \cup {[id |-> j.id, channel_id |-> j.channel_id,
                                  category |-> j.category, pc |-> "fetch",
                                  at |-> now + 1, sends |-> 0, late |-> FALSE]}
         /\ jobs' = (jobs \ {j}) \cup
                        {[j EXCEPT !.next_run_time = clock' + j.hours,
                                   !.first_run = IF @ = NoTime THEN {clock'} ELSE @]}
    /\ now' = now + 1
    /\ UNCHANGED <<schedules, running, withdrawn, latest, last_tick, escaped>>
    /\ UNCHANGED pipelineVars

\* wallpaper_data = await fetch_wallpaper(category): a record, None (logged,
\* return), or an exception.
TickFetchWallpaper(channel_id, interval) ==
    /\ \E t \in ticks, got \in {"record", "none", "raise"} :
         /\ t.id = JobId(channel_id, interval)
         /\ t.pc = "fetch"
         /\
            CASE got = "record" ->
                   /\ ticks' = (ticks \ {t}) \cup {[Acts(t) EXCEPT !.pc = "send"]}
                   /\ UNCHANGED <<last_tick, escaped>>
              [] got = "none"   -> TickEnds(t, Acts(t), "no_record", FALSE)
              [] got = "raise"  -> TickEnds(t, Acts(t), "raised_fetch", TRUE)
    /\ UNCHANGED <<schedules, jobs, running, now, clock, withdrawn, latest>>
    /\ TickFrame

\* The caption, the keyboard and await bot.send_photo(...), then the
\* reaction, which lastperson07_add_random_reaction wraps in its own
\* try/except.  A send_photo that raises ends the run in the except clause.
TickSendPhoto(channel_id, interval) ==
    /\ \E t \in ticks, delivered \in BOOLEAN :
         /\ t.id = JobId(channel_id, interval)
         /\ t.pc = "send"
         /\ LET sent == [Acts(t) EXCEPT !.sends = @ + 1]
            IN IF delivered
               THEN /\ ticks' = (ticks \ {t}) \cup {[sent EXCEPT !.pc = "update"]}
                    /\ UNCHANGED <<last_tick, escaped>>
               ELSE TickEnds(t, sent, "raised_send", TRUE)
    /\ UNCHANGED <<schedules, jobs, running, now, clock, withdrawn, latest>>
    /\ TickFrame

\* await update_schedule_last_post(channel_id), the last statement.
TickUpdateSchedule(channel_id, interval) ==
    /\ \E t \in ticks :
         /\ t.id = JobId(channel_id, interval)
         /\ t.pc = "update"
         /\ schedules' = update_schedule_last_post(schedules, t.channel_id, now)
         /\ TickEnds(t, Acts(t), "posted", FALSE)
    /\ UNCHANGED <<jobs, running, now, clock, withdrawn, latest>>
    /\ TickFrame

\* The registry at a startup with n active entries of n destinations.
InitStartup ==
    /\ \E n \in 0..MaxEntries :
         schedules = [i \in 1..n |->
                         ScheduleDoc(i, i, IF i % 2 = 0 THEN "daily" ELSE "hourly",
                                     "nature")]
    /\ jobs = {}
    /\ running = FALSE
    /\ ticks = {}
    /\ now = 0
    /\ clock = 0
    /\ withdrawn = {}
    /\ latest = NoLatest
    /\ last_tick = NoTick
    /\ escaped = FALSE

-----------------------------------------------------------------------------
(* Database connection and bot initialization (db/client.py, app.py)       *)

\* max_retries = 5
MaxRetries == 5

\* connect(): True at once when already connected; otherwise a client is
\* built and pinged: is_connected becomes True and True is returned, or the
\* exception of the ping is caught, is_connected stays False and False is
\* returned.  Every exception is caught: the outcome is never "raise".
connect(connected, reachable) ==
    IF connected
    THEN [connected |-> TRUE, outcome |-> "true", pinged |-> FALSE]
    ELSE IF reachable
    THEN [connected |-> TRUE, outcome |-> "true", pinged |-> TRUE]
    ELSE [connected |-> FALSE, outcome |-> "false", pinged |-> TRUE]

\* create_indexes(): returns when ensure_connection() is False, and catches
\* the exceptions of create_index: it returns None on every path.
create_indexes(connected) == "return"

\* The body of `for i in range(max_retries)` after a call: an exception
\* ends the initialization on the last iteration and otherwise sleeps
\* 2 ** i seconds and goes round; no exception goes on to `next`.
AfterCall(st, outcome, pinged, next) ==
    LET counted == [st EXCEPT !.attempts = @ + (IF pinged THEN 1 ELSE 0)]
    IN IF outcome = "raise"
       THEN IF st.i = MaxRetries - 1
            THEN [counted EXCEPT !.pc = "failed"]
            ELSE [counted EXCEPT !.pc = "connect", !.i = @ + 1,
                                 !.slept = Append(@, 2 ^ st.i)]
       ELSE [counted EXCEPT !.pc = next]

\* await lastperson07_db_client.connect(); its result is not looked at.
InitializeConnect ==
    /\ init.pc = "connect"
    /\ \E reachable \in BOOLEAN :
         LET c == connect(is_connected, reachable)
         IN /\ is_connected' = c.connected
            /\ init' = AfterCall(init, c.outcome, c.pinged, "indexes")
    /\ UNCHANGED <<acquireVars, storeVars, opsVars, demandVars, schedVars,
                   temp_files, last_validation, raw_category, sanitized_category>>

\* await lastperson07_db_client.create_indexes(): ensure_connection() calls
\* connect() when not connected; then "Database connection established" is
\* logged and the loop is left.
InitializeCreateIndexes ==
    /\ init.pc = "indexes"
    /\ \E reachable \in BOOLEAN :
         LET c == connect(is_connected, reachable)
         IN /\ is_connected' = c.connected
            /\ init' = AfterCall(init, create_indexes(c.connected), c.pinged,
                                 "established")
    /\ UNCHANGED <<acquireVars, storeVars, opsVars, demandVars, schedVars,
                   temp_files, last_validation, raw_category, sanitized_category>>

\* The rest of lastperson07_initialize: the application, the handlers, and
\* lastperson07_init_scheduler, whose get_schedules goes through
\* get_collection: connect() when not connected, and no documents when
\* that fails.
InitializeScheduler ==
    /\ init.pc = "established"
    /\ ~running
    /\ \E reachable \in BOOLEAN :
         LET c == connect(is_connected, reachable)
             docs == IF c.connected THEN get_schedules(schedules, TRUE) ELSE <<>>
         IN /\ is_connected' = c.connected
            /\ init' = [init EXCEPT !.pc = "done",
                                    !.attempts = @ + (IF c.pinged THEN 1 ELSE 0)]
            /\ jobs' = LoadJobs(docs, {}, clock)
    /\ running' = TRUE
    /\ UNCHANGED <<schedules, ticks, now, clock, withdrawn, latest, last_tick, escaped>>
    /\ UNCHANGED <<acquireVars, storeVars, opsVars, demandVars,
                   temp_files, last_validation, raw_category, sanitized_category>>

-----------------------------------------------------------------------------
(* Specifications                                                          *)

InitAcquire ==
    InitFetcher /\ InitStore /\ InitOps /\ InitDemand /\ IdleScheduler
    /\ IdleHelpers

NextAcquire ==
    \/ FetchWallpaperStart
    \/ FetchFromApi
    \/ ValidateImage

SpecAcquire == InitAcquire /\ [][NextAcquire]_vars

\* A call of fetch_wallpaper whose awaits return: every HTTP request of the
\* adapters and of the validator runs under a ClientTimeout.
SpecAcquireFair == SpecAcquire /\ WF_vars(NextAcquire)

\* A call of fetch_wallpaper that its caller may cancel while it awaits.
NextAcquireCancel ==
    \/ FetchWallpaperStart
    \/ FetchFromApi
    \/ ValidateImage
    \/ CancelFetch

SpecAcquireCancel == InitAcquire /\ [][NextAcquireCancel]_vars

\* Direct calls of the validator, with and without Pillow.
InitValidate ==
    /\ api_keys = [p \in Providers |-> TRUE]
    /\ pillow_available \in BOOLEAN
    /\ fpc = "idle"
    /\ api_idx = 1
    /\ wallpaper_data = NoData
    /\ result = NoData
    /\ fetched = [p \in Providers |-> NotCalled]
    /\ validated = [p \in Providers |-> "none"]
    /\ calls = <<>>
    /\ cancelled = FALSE
    /\ InitStore /\ InitOps /\ InitDemand /\ IdleScheduler
    /\ IdleHelpers

NextValidate == CallValidator

SpecValidate == InitValidate /\ [][NextValidate]_vars

\* Direct calls of the sanitizer, one per raw category.
InitSanitize ==
    /\ IdleFetcher /\ InitStore /\ InitOps /\ InitDemand /\ IdleScheduler
    /\ temp_files = 0
    /\ last_validation = NoValidation
    /\ raw_category \in RawCategories
    /\ sanitized_category = NotSanitized
    /\ IdleDb

NextSanitize == CallSanitize

SpecSanitize == InitSanitize /\ [][NextSanitize]_vars

\* lastperson07_initialize from its connection step on, over the stored
\* registries of every size up to MaxEntries.
InitInitialize ==
    /\ IdleFetcher /\ InitStore /\ InitOps /\ InitDemand /\ InitStartup
    /\ temp_files = 0
    /\ last_validation = NoValidation
    /\ raw_category = NoCategory
    /\ sanitized_category = NotSanitized
    /\ is_connected = FALSE
    /\ init = [NotInitializing EXCEPT !.pc = "connect"]

NextInitialize ==
    \/ InitializeConnect
    \/ InitializeCreateIndexes
    \/ InitializeScheduler

SpecInitialize == InitInitialize /\ [][NextInitialize]_vars

InitQuotaOps ==
    IdleFetcher /\ InitStore /\ InitOps /\ InitDemand /\ IdleScheduler
    /\ IdleHelpers

NextQuotaOps ==
    \/ \E u \in Consumers : CreateUser(u)
    \/ \E u \in Consumers : CheckDailyLimit(u)
    \/ \E u \in Consumers : UpdateUserFetchCount(u)
    \/ \E u \in Consumers : UpgradeToPremium(u)
    \/ \E u \in Consumers : DowngradeToFree(u)
    \/ AdvanceDay

SpecQuotaOps == InitQuotaOps /\ [][NextQuotaOps]_vars

InitOnDemand ==
    IdleFetcher /\ InitStoreOnDemand /\ InitOps /\ InitDemand /\ IdleScheduler
    /\ IdleHelpers

\* The /fetch command alone.
NextFetchCommand ==
    \/ \E r \in Requests, u \in Consumers : HandleFetchStart(r, u)
    \/ \E r \in Requests : CheckDailyLimitRead(r)
    \/ \E r \in Requests : CheckDailyLimitReset(r)
    \/ \E r \in Requests : HandlerFetchWallpaper(r)
    \/ \E r \in Requests : HandlerSendPhoto(r)
    \/ \E r \in Requests : HandlerRecord(r)
    \/ AdvanceDay

SpecFetchCommand == InitOnDemand /\ [][NextFetchCommand]_vars

\* The /fetch command and the fetch_<category> buttons.
NextOnDemand ==
    \/ NextFetchCommand
    \/ \E r \in Requests, u \in Consumers : HandleCallbackFetchStart(r, u)

SpecOnDemand == InitOnDemand /\ [][NextOnDemand]_vars

\* Both on-demand paths next to the admin's /ban and /unban, within a day.
NextOnDemandBans ==
    \/ \E r \in Requests, u \in Consumers : HandleFetchStart(r, u)
    \/ \E r \in Requests : CheckDailyLimitRead(r)
    \/ \E r \in Requests : CheckDailyLimitReset(r)
    \/ \E r \in Requests, u \in Consumers : HandleCallbackFetchStart(r, u)
    \/ \E r \in Requests : HandlerFetchWallpaper(r)
    \/ \E r \in Requests : HandlerSendPhoto(r)
    \/ \E r \in Requests : HandlerRecord(r)
    \/ \E u \in Consumers : BanUser(u)
    \/ \E u \in Consumers : UnbanUser(u)

SpecOnDemandBans == InitOnDemand /\ [][NextOnDemandBans]_vars

\* Registrations, withdrawals and restarts.
InitSchedules ==
    IdleFetcher /\ InitStore /\ InitOps /\ InitDemand /\ InitScheduler
    /\ IdleHelpers

NextRegistry ==
    \/ StartScheduler
    \/ StopScheduler
    \/ \E c \in Channels, i \in InputIntervals, g \in Categories :
          HandleSchedule(c, i, g)
    \/ \E c \in Channels, i \in InputIntervals, g \in Categories :
          AddSchedule(c, i, g)
    \/ \E c \in Channels, i \in Intervals : RemoveSchedule(c, i)

SpecRegistry == InitSchedules /\ [][NextRegistry]_vars

\* The scheduler with the runs of its jobs, one step per await.
NextScheduler ==
    \/ StartScheduler
    \/ StopScheduler
    \/ \E c \in Channels, i \in Intervals : RemoveSchedule(c, i)
    \/ \E c \in Channels, i \in Intervals : JobFires(c, i)
    \/ \E c \in Channels, i \in Intervals : TickFetchWallpaper(c, i)
    \/ \E c \in Channels, i \in Intervals : TickSendPhoto(c, i)
    \/ \E c \in Channels, i \in Intervals : TickUpdateSchedule(c, i)

SpecScheduler == InitSchedules /\ [][NextScheduler]_vars

\* Registrations through add_schedule, restarts, and the runs of the jobs.
NextTimers ==
    \/ StartScheduler
    \/ StopScheduler
    \/ \E i \in Intervals : AddSchedule(2, i, "space")
    \/ \E c \in Channels, i \in Intervals : JobFires(c, i)
    \/ \E c \in Channels, i \in Intervals : TickFetchWallpaper(c, i)
    \/ \E c \in Channels, i \in Intervals : TickSendPhoto(c, i)
    \/ \E c \in Channels, i \in Intervals : TickUpdateSchedule(c, i)

SpecTimers == InitSchedules /\ [][NextTimers]_vars

\* The scheduler next to a users collection that holds consumers.
InitSchedulesWithUsers ==
    IdleFetcher /\ InitStoreOnDemand /\ InitOps /\ InitDemand /\ InitScheduler
    /\ IdleHelpers

SpecSchedulerWithUsers == InitSchedulesWithUsers /\ [][NextScheduler]_vars

\* The scheduler's startup over registries of every size up to MaxEntries.
InitStartupAll ==
    IdleFetcher /\ InitStore /\ InitOps /\ InitDemand /\ InitStartup
    /\ IdleHelpers

NextStartup ==
    \/ StartScheduler
    \/ StopScheduler

SpecStartup == InitStartupAll /\ [][NextStartup]_vars


-----------------------------------------------------------------------------
(* Claims about the acquisition coordinator (SpecAcquire)                  *)

\* The adapter calls of this fetch_wallpaper call, in the order made.
FetchCalls == SelectSeq(calls, LAMBDA c : c[1] = "fetch")

\* Provider p returned a record and the record was accepted: the validator
\* accepted its preview, or validation is unavailable and nothing is checked.
Qualified(p) ==
    /\ fetched[p].called
    /\ fetched[p].data # NoData
    /\ validated[p] = "accept" \/ ~pillow_available

\* C1: when fetch_wallpaper returns, the adapters were called in the order
\* Unsplash, Pexels, Pixabay, the result is the record of the first provider
\* that returned a record which passed validation (None if there is none),
\* and no provider after that one was fetched or validated.
C1_FirstQualifyingProviderWins ==
    fpc = "done" =>
        LET order == <<"unsplash", "pexels", "pixabay">>
            Q == {i \in 1..3 : Qualified(order[i])}
        IN /\ Len(FetchCalls) <= 3
           /\ \A k \in 1..Len(FetchCalls) : FetchCalls[k][2] = order[k]
           /\ \A i \in 1..3 : fetched[order[i]].called <=> i <= Len(FetchCalls)
           /\ IF Q = {}
              THEN result = NoData /\ Len(FetchCalls) = 3
              ELSE LET first == CHOOSE i \in Q : \A j \in Q : i <= j
                   IN /\ result = fetched[order[first]].data
                      /\ Len(FetchCalls) = first
                      /\ \A j \in (first + 1)..3 : validated[order[j]] = "none"

\* Unsplash returned a record that was rejected, Pexels' record was accepted
\* and returned, Pixabay was never asked.
C1_Witness ==
    /\ fpc = "done"
    /\ fetched["unsplash"].data # NoData
    /\ validated["unsplash"] = "reject"
    /\ validated["pexels"] = "accept"
    /\ result.source = "Pexels"
    /\ ~fetched["pixabay"].called

\* C2: a record returned by fetch_wallpaper has width and height of at least
\* the configured minimum and a non-empty image_url.
C2_ReturnedRecordMeetsMinimums ==
    (fpc = "done" /\ result # NoData) =>
        /\ result.width >= LASTPERSON07_MIN_IMAGE_WIDTH
        /\ result.height >= LASTPERSON07_MIN_IMAGE_HEIGHT
        /\ result.image_url # ""

-----------------------------------------------------------------------------
(* Claims about the quota operations (SpecQuotaOps)                        *)

\* The last operation was check_daily_limit on a stored Free-tier consumer.
CheckedFree ==
    /\ lastCall.op = "check"
    /\ lastCall.before.exists
    /\ lastCall.before.tier = "free"

\* C4: in a run of check+record cycles that starts on a fresh day, the checks
\* number 1..dailyLimit report limited = false and check number dailyLimit+1
\* reports limited = true with remaining = 0.
C4_QuotaCycles ==
    (lastCall.op = "check" /\ Odd(streak[lastCall.user])) =>
        LET k == (streak[lastCall.user] + 1) \div 2
        IN /\ k <= LASTPERSON07_FREE_FETCH_LIMIT => ~lastCall.limited
           /\ k = LASTPERSON07_FREE_FETCH_LIMIT + 1 =>
                  (lastCall.limited /\ lastCall.remaining = 0)

\* The check that follows dailyLimit check+record cycles.
C4_Witness ==
    /\ lastCall.op = "check"
    /\ streak[lastCall.user] = 2 * LASTPERSON07_FREE_FETCH_LIMIT + 1
    /\ lastCall.limited

\* C7 (as claimed): a check of a Free-tier consumer whose stored date is
\* absent or not today leaves fetch_count = 0 and last_fetch_date = today.
C7_CheckMovesWindowToToday ==
    (CheckedFree /\ lastCall.before.last_fetch_date # {lastCall.day}) =>
        /\ users[lastCall.user].fetch_count = 0
        /\ users[lastCall.user].last_fetch_date = {today}

\* C7 (amended): such a check leaves fetch_count = 0 and does not touch
\* last_fetch_date, which only update_user_fetch_count sets.
C7_CheckResetsCountOnly ==
    (CheckedFree /\ lastCall.before.last_fetch_date # {lastCall.day}) =>
        /\ users[lastCall.user].fetch_count = 0
        /\ users[lastCall.user].last_fetch_date = lastCall.before.last_fetch_date

\* A check found a count recorded on an earlier day.
C7_Witness ==
    /\ CheckedFree
    /\ lastCall.before.last_fetch_date # NoDate
    /\ lastCall.before.last_fetch_date # {lastCall.day}
    /\ lastCall.before.fetch_count > 0

\* C8: stored date yesterday and fetch_count = dailyLimit, checked today:
\* limited = false and remaining = dailyLimit.
C8_RolloverFromYesterday ==
    (/\ CheckedFree
     /\ lastCall.before.last_fetch_date = {lastCall.day - 1}
     /\ lastCall.before.fetch_count = LASTPERSON07_FREE_FETCH_LIMIT) =>
        /\ ~lastCall.limited
        /\ lastCall.remaining = LASTPERSON07_FREE_FETCH_LIMIT

C8_Witness ==
    /\ CheckedFree
    /\ lastCall.before.last_fetch_date = {lastCall.day - 1}
    /\ lastCall.before.fetch_count = LASTPERSON07_FREE_FETCH_LIMIT

\* C9: stored date today: limited = (fetch_count >= dailyLimit), remaining =
\* max(0, dailyLimit - fetch_count), and the stored count is not changed.
C9_SameDayResult ==
    (CheckedFree /\ lastCall.before.last_fetch_date = {lastCall.day}) =>
        LET n == lastCall.before.fetch_count
            left == LASTPERSON07_FREE_FETCH_LIMIT - n
        IN /\ lastCall.limited <=> n >= LASTPERSON07_FREE_FETCH_LIMIT
           /\ lastCall.remaining = IF left > 0 THEN left ELSE 0
           /\ users[lastCall.user].fetch_count = n

\* A same-day check of a count above the limit.
C9_Witness ==
    /\ CheckedFree
    /\ lastCall.before.last_fetch_date = {lastCall.day}
    /\ lastCall.before.fetch_count > LASTPERSON07_FREE_FETCH_LIMIT

\* C10: a check of a premium consumer reports limited = false and
\* remaining = -1, whatever the stored count and date.
C10_PremiumNeverLimited ==
    (/\ lastCall.op = "check"
     /\ lastCall.before.exists
     /\ lastCall.before.tier = "premium") =>
        /\ ~lastCall.limited
        /\ lastCall.remaining = -1

\* A premium consumer checked with today's count at or above the free limit.
C10_Witness ==
    /\ lastCall.op = "check"
    /\ lastCall.before.exists
    /\ lastCall.before.tier = "premium"
    /\ lastCall.before.last_fetch_date = {lastCall.day}
    /\ lastCall.before.fetch_count >= LASTPERSON07_FREE_FETCH_LIMIT

-----------------------------------------------------------------------------
(* Claims about the on-demand requests (SpecFetchCommand, SpecOnDemand)    *)

\* C3: once every request has finished, the fetch_count stored for a
\* Free-tier consumer under today's date is the number of consumptions
\* recorded today: no reset and no increment was lost.
C3_CountIsTodaysConsumption ==
    (\A r \in Requests : req[r].pc = "idle") =>
        \A u \in Consumers :
            (/\ users[u].exists
             /\ users[u].tier = "free"
             /\ users[u].last_fetch_date = {today}) =>
                users[u].fetch_count = consumedToday[u]

\* C5: a request that has reached the call of fetch_wallpaper has run
\* check_daily_limit, and the check did not report a Free-tier consumer
\* as limited.
C5_CheckPrecedesAcquisition ==
    \A r \in Requests :
        req[r].pc \in {"fetch", "send", "record"} =>
            /\ req[r].checked
            /\ ~(req[r].reached_limit /\ req[r].tier = "free")

\* C6: the count a limit decision for a Free-tier consumer is based on is
\* the number of consumptions recorded on the current UTC day.
C6_DecisionUsesTodaysCount ==
    lastCheck.tier = "free" => lastCheck.used = lastCheck.consumed

\* C11: on the /fetch path a consumer's fetch_count goes up only in the
\* step that follows a successful delivery, and then by exactly one; a
\* request that is blocked by the limit check, gets no record, or whose
\* delivery raises ends without an increment.  (The only other change of
\* the count is the reset to 0 inside check_daily_limit.)
C11_ChargedOncePerDelivery ==
    [][
        /\ \A u \in Consumers :
             (users'[u].fetch_count # users[u].fetch_count) =>
                 \/ \E r \in Requests :
                        /\ req[r].pc = "record"
                        /\ req[r].user = u
                        /\ req'[r].pc = "idle"
                        /\ users'[u].fetch_count = users[u].fetch_count + 1
                 \/ \E r \in Requests :
                        /\ req[r].pc = "check_reset"
                        /\ req[r].user = u
                        /\ users'[u].fetch_count = 0
        \* the increment is only reached through a delivery ...
        /\ \A r \in Requests :
             (req'[r].pc = "record" /\ req[r].pc # "record") =>
                 req[r].pc = "send"
        \* ... and a delivered request is charged in its next step.
        /\ \A r \in Requests :
             (req[r].pc = "record" /\ req'[r] # req[r]) =>
                 users'[req[r].user].fetch_count =
                     users[req[r].user].fetch_count + 1
    ]_vars

\* Two deliveries to one consumer on one day, both charged, nothing pending.
C11_Witness ==
    /\ \A r \in Requests : req[r].pc = "idle"
    /\ \E u \in Consumers :
         /\ users[u].last_fetch_date = {today}
         /\ users[u].fetch_count = 2
         /\ consumedToday[u] = 2

-----------------------------------------------------------------------------
(* Claims about the acquisition coordinator, continued (SpecAcquire)       *)

\* C20: when all three adapters were called and each returned None,
\* fetch_wallpaper returns None and the validator was never called.
C20_AllEmptyNoValidation ==
    (/\ fpc = "done"
     /\ \A p \in Providers : fetched[p].called /\ fetched[p].data = NoData) =>
        /\ result = NoData
        /\ \A p \in Providers : validated[p] = "none"
        /\ \A k \in 1..Len(calls) : calls[k][1] # "validate"

\* Validation is available, every credential is configured, and every
\* adapter came back empty.
C20_Witness ==
    /\ fpc = "done"
    /\ pillow_available
    /\ \A p \in Providers : api_keys[p]
    /\ \A p \in Providers : fetched[p].called /\ fetched[p].data = NoData

-----------------------------------------------------------------------------
(* Claims about the schedule registry (SpecRegistry)                       *)

\* The entry of the registry at position i is active and has this key.
ActiveFor(i, key) ==
    /\ schedules[i].active
    /\ <<schedules[i].channel_id, schedules[i].interval>> = key

C13_OneTimerWithLatestCategory ==
    (running /\ latest # NoLatest) =>
        /\ \E j \in jobs :
              /\ KeyOf(j.id) = latest.key
              /\ j.category = latest.category
        /\ \A j1, j2 \in jobs :
              (KeyOf(j1.id) = latest.key /\ KeyOf(j2.id) = latest.key) => j1 = j2

\* C14: a key whose remove_schedule has returned (and that was not
\* registered again) has only inactive entries in the registry and no job,
\* also after later startups.
C14_WithdrawnStaysInactive ==
    \A key \in withdrawn :
        /\ \A i \in DOMAIN schedules : ~ActiveFor(i, key)
        /\ \A j \in jobs : KeyOf(j.id) # key

-----------------------------------------------------------------------------
(* Claims about the runs of the scheduler's jobs (SpecScheduler)           *)

\* The registry entries of the key of the run that ended last carry a
\* last_post_time that is not before the time the run was fired.
MarkedSinceLastTick ==
    \A i \in DOMAIN schedules :
        <<schedules[i].channel_id, schedules[i].interval>> = KeyOf(last_tick.id)
            => \E x \in schedules[i].last_post_time : x >= last_tick.at

\* C15: no run of a job acquires, delivers or updates the registry for a
\* key after remove_schedule has returned for it, a run in flight at the
\* time of the call included.
C15_NoActAfterWithdrawal ==
    /\ ~last_tick.late
    /\ \A t \in ticks : ~t.late

\* C16: when a run ended because fetch_wallpaper returned no record, the
\* entry's last_post_time has been set to the time of the run.
C16_FailedAcquisitionMarksRun ==
    last_tick.outcome = "no_record" => MarkedSinceLastTick

\* C17: when a run ended because send_photo raised, the entry's
\* last_post_time has been set to the time of the run, and the run called
\* send_photo once.
C17_FailedDeliveryMarksRun ==
    last_tick.outcome = "raised_send" =>
        /\ MarkedSinceLastTick
        /\ last_tick.sends = 1

\* C19: no exception leaves lastperson07_post_wallpaper_job, and the step
\* in which a run ends by an exception leaves the scheduler running and
\* the job store as it was.
C19_TickExceptionsAreCaught ==
    [][
        /\ ~escaped'
        /\ (/\ last_tick' # last_tick
            /\ last_tick'.outcome \in {"raised_fetch", "raised_send"}) =>
               (running' = running /\ jobs' = jobs)
    ]_vars

\* A run ended in send_photo raising; the scheduler runs and the job of
\* that run is still in the job store.
C19_Witness ==
    /\ last_tick.outcome = "raised_send"
    /\ running
    /\ ~escaped
    /\ \E j \in jobs : j.id = last_tick.id

-----------------------------------------------------------------------------
(* Claims about the scheduler's startup (SpecStartup)                      *)

-----------------------------------------------------------------------------
(* Claims about the acquisition coordinator (SpecAcquireFair)              *)

\* The number of calls of one kind made for provider p in this call.
CallsOf(kind, p) == Len(SelectSeq(calls, LAMBDA c : c = <<kind, p>>))

\* C21: in one fetch_wallpaper call every provider is fetched at most once
\* and validated at most once, and the call ends, with a record or None.
C21_AtMostOncePerProviderAndEnds ==
    /\ [](\A p \in Providers :
             CallsOf("fetch", p) <= 1 /\ CallsOf("validate", p) <= 1)
    /\ <>(fpc = "done")

\* The longest call: three fetches and three validations, all rejected.
C21_Witness ==
    /\ fpc = "done"
    /\ result = NoData
    /\ \A p \in Providers :
         CallsOf("fetch", p) = 1 /\ CallsOf("validate", p) = 1

-----------------------------------------------------------------------------
(* Claims about the content validator (SpecValidate)                       *)

\* C22: the validator removes its temporary file on every exit path, so no
\* temporary file remains after a call.
C22_NoTempFileRemains == temp_files = 0

\* C23: the validator never raises to its caller: every call yields true or
\* false.
C23_ValidatorNeverRaises ==
    last_validation.called => last_validation.run.result \in {"accept", "reject"}

\* The asset of the last call downloaded with status 200 and without an
\* oversized content-length header, validation being enabled.
Downloaded ==
    /\ last_validation.called
    /\ pillow_available
    /\ last_validation.image_url # ""
    /\ last_validation.d.status = "200"
    /\ ~(last_validation.d.has_length
          /\ last_validation.d.length > LASTPERSON07_MAX_FILE_SIZE_MB * 1024 * 1024)

\* C24: a downloaded asset is accepted exactly when it decodes, is at least
\* 1920 wide and 1080 high (inclusive) and its format is JPEG, PNG or WEBP.
C24_AcceptedIffLargeEnoughAndAllowed ==
    Downloaded =>
        (last_validation.run.result = "accept"
            <=> /\ last_validation.d.decodes
                /\ last_validation.d.width >= 1920
                /\ last_validation.d.height >= 1080
                /\ last_validation.d.format \in {"JPEG", "PNG", "WEBP"})

\* An image of exactly 1920x1080 in an allowed format was accepted.
C24_Witness ==
    /\ Downloaded
    /\ last_validation.d.decodes
    /\ last_validation.d.width = 1920
    /\ last_validation.d.height = 1080
    /\ last_validation.d.format = "JPEG"
    /\ last_validation.run.result = "accept"

\* C25: when the content-length header exceeds the maximum the validator
\* rejects without reading the body and without a decode attempt.
C25_OversizedHeaderRejectsEarly ==
    (/\ last_validation.called
     /\ pillow_available
     /\ last_validation.image_url # ""
     /\ last_validation.d.status = "200"
     /\ last_validation.d.has_length
     /\ last_validation.d.length > LASTPERSON07_MAX_FILE_SIZE_MB * 1024 * 1024)
    => /\ last_validation.run.result = "reject"
       /\ ~last_validation.run.body_read
       /\ ~last_validation.run.decode_attempted

\* An oversized header on an image that would otherwise have been accepted.
C25_Witness ==
    /\ last_validation.called
    /\ pillow_available
    /\ last_validation.image_url # ""
    /\ last_validation.d.status = "200"
    /\ last_validation.d.has_length
    /\ last_validation.d.length > LASTPERSON07_MAX_FILE_SIZE_MB * 1024 * 1024
    /\ last_validation.d.decodes
    /\ last_validation.d.width = 1920
    /\ last_validation.d.height = 1080
    /\ last_validation.d.format = "JPEG"
    /\ last_validation.run.result = "reject"

-----------------------------------------------------------------------------
(* Claims about the adapters and the coordinator (SpecAcquire)             *)

\* The providers that returned a record in this call, by position.
NonEmptyAt == {i \in 1..Len(ApiOrder) : fetched[ApiOrder[i]].data # NoData}

\* C26: without Pillow the validator accepts unconditionally, and
\* fetch_wallpaper downloads nothing and returns the record of the first
\* provider that returns one.
C26_NoPillowReturnsFirstRecord ==
    ~pillow_available =>
        /\ \A image_url \in {"", "http://img"}, d \in Downloads :
              lastperson07_download_and_validate_image(
                  pillow_available, image_url, d) = "accept"
        /\ \A p \in Providers :
              CallsOf("validate", p) = 0 /\ validated[p] = "none"
        /\ temp_files = 0
        /\ fpc = "done" =>
              IF NonEmptyAt = {}
              THEN result = NoData
              ELSE \E i \in NonEmptyAt :
                     /\ result = fetched[ApiOrder[i]].data
                     /\ \A j \in 1..Len(ApiOrder) :
                          /\ j < i => /\ fetched[ApiOrder[j]].called
                                      /\ fetched[ApiOrder[j]].data = NoData
                          /\ j > i => ~fetched[ApiOrder[j]].called

\* Without Pillow, Unsplash had a credential and returned nothing and the
\* record of Pexels was returned.
C26_Witness ==
    /\ ~pillow_available
    /\ fpc = "done"
    /\ api_keys["unsplash"]
    /\ fetched["unsplash"].called
    /\ fetched["unsplash"].data = NoData
    /\ result.source = "Pexels"
    /\ calls = <<(<<"fetch", "unsplash">>), (<<"fetch", "pexels">>)>>

\* C27: no adapter raises: whatever the request does, the adapter returns
\* a record or None, and None for a rate-limit or error status.
C27_AdaptersNeverRaise ==
    \A p \in Providers :
        fetched[p].called =>
            /\ fetched[p].data # Raised
            /\ fetched[p].request \in {"ratelimit", "error"}
                  => fetched[p].data = NoData

\* A call in which one adapter met a network error, one a malformed body
\* and one the rate limit.
C27_Witness ==
    /\ fpc = "done"
    /\ fetched["unsplash"].request = "neterr"
    /\ fetched["pexels"].request = "malformed"
    /\ fetched["pixabay"].request = "ratelimit"
    /\ result = NoData

\* C28: an adapter without a credential returns None without a request, and
\* fetch_wallpaper goes on: with no Unsplash credential and a Pexels record
\* that validates, the record of Pexels is returned.
C28_MissingKeySkipsProvider ==
    /\ \A p \in Providers :
          (fetched[p].called /\ ~api_keys[p])
              => fetched[p].data = NoData /\ fetched[p].request = "none"
    /\ (/\ ~api_keys["unsplash"]
        /\ fetched["pexels"].called
        /\ fetched["pexels"].data # NoData
        /\ (pillow_available => validated["pexels"] = "accept")
        /\ fpc = "done")
       => /\ result = fetched["pexels"].data
          /\ result.source = "Pexels"

\* Unsplash has no credential and the record of Pexels was validated and
\* returned.
C28_Witness ==
    /\ ~api_keys["unsplash"]
    /\ pillow_available
    /\ fetched["unsplash"].called
    /\ fetched["unsplash"].request = "none"
    /\ validated["pexels"] = "accept"
    /\ fpc = "done"
    /\ result.source = "Pexels"

-----------------------------------------------------------------------------
(* Claims about the category sanitizer (SpecSanitize)                      *)

\* C29: for every raw category, None and the empty, whitespace-only and
\* symbol-only strings included, the sanitizer returns a non-empty string of
\* at most 50 lower-case letters, digits and single blanks that neither
\* starts nor ends with a blank, and the same for the same input.
C29_SanitizedIsUsableToken ==
    sanitized_category.done =>
        LET out == sanitized_category.chars
        IN /\ Len(out) >= 1
           /\ Len(out) <= 50
           /\ \A i \in 1..Len(out) : out[i] \in LowerLetters \cup Digits \cup {" "}
           /\ out[1] # " "
           /\ out[Len(out)] # " "
           /\ \A i \in 1..(Len(out) - 1) : ~(out[i] = " " /\ out[i + 1] = " ")
           /\ out = lastperson07_sanitize_category(raw_category)

\* A raw category of more than 50 characters whose cut ended on a blank.
C29_Witness ==
    /\ sanitized_category.done
    /\ ~raw_category.nil
    /\ Len(raw_category.chars) > 50
    /\ raw_category.chars[50] = " "
    /\ Len(sanitized_category.chars) = 49

-----------------------------------------------------------------------------
(* Claims about the scheduled job and the quota (SpecSchedulerWithUsers)   *)

\* C30: a step of a scheduled run, whether the run goes on, ends posted or
\* ends in a failure, leaves every consumer's fetch_count, window date and
\* tier as they were.
C30_TicksLeaveQuotaAlone ==
    [][
        (ticks' # ticks \/ last_tick' # last_tick)
            => \A u \in Consumers :
                 /\ users'[u].fetch_count = users[u].fetch_count
                 /\ users'[u].last_fetch_date = users[u].last_fetch_date
                 /\ users'[u].tier = users[u].tier
    ]_vars

\* Every run has ended, the last one posted, next to a free consumer.
C30_Witness ==
    /\ now = MaxTicks
    /\ ticks = {}
    /\ last_tick.outcome = "posted"
    /\ \E u \in Consumers : users[u].exists /\ users[u].tier = "free"

\* C40: the sanitizer is idempotent: sanitizing its own output gives that
\* output again, also for inputs cut at 50 characters and for inputs that
\* map to the default category.
C40_SanitizeIsIdempotent ==
    sanitized_category.done =>
        lastperson07_sanitize_category(
            [nil |-> FALSE, chars |-> sanitized_category.chars])
        = sanitized_category.chars

\* A raw category of more than 50 characters that was cut in a word.
C40_Witness ==
    /\ sanitized_category.done
    /\ ~raw_category.nil
    /\ Len(raw_category.chars) > 50
    /\ raw_category.chars[51] = "a"
    /\ Len(sanitized_category.chars) = 50

-----------------------------------------------------------------------------
(* Further claims about the content validator (SpecValidate)               *)

\* C39: with validation enabled the validator never accepts an asset whose
\* downloaded size exceeds the maximum, with or without a content-length
\* header.
C39_OversizedNeverAccepted ==
    (/\ last_validation.called
     /\ pillow_available
     /\ last_validation.d.length > LASTPERSON07_MAX_FILE_SIZE_MB * 1024 * 1024)
    => last_validation.run.result # "accept"

-----------------------------------------------------------------------------
(* Further claims about the on-demand handlers                             *)

\* C33: a Free-tier consumer receives at most the daily limit (5) of
\* on-demand deliveries within one UTC day, over both on-demand paths.
C33_DeliveriesWithinDailyLimit ==
    \A u \in Consumers :
        (users[u].exists /\ users[u].tier = "free") => deliveredToday[u] <= 5

\* C34: a request of a banned consumer never reaches fetch_wallpaper, a
\* delivery or the recording of a consumption, on either on-demand path.
C34_BannedNeverServed ==
    \A r \in Requests :
        req[r].pc \in {"fetch", "send", "record"}
            => ~users[req[r].user].banned

-----------------------------------------------------------------------------
(* Further claims about the registry and the scheduler                     *)

\* The (channel_id, interval) key of the registry entry i.
EntryKey(i) == <<schedules[i].channel_id, schedules[i].interval>>

\* C35: while the scheduler runs, every active registry entry has a job in
\* the job store, an entry registered by /schedule included.
C35_ActiveEntryHasTimer ==
    running =>
        \A i \in DOMAIN schedules :
            schedules[i].active => \E j \in jobs : KeyOf(j.id) = EntryKey(i)

C37_TimerOnlyIfPersisted ==
    \A j \in jobs : \E i \in DOMAIN schedules : ActiveFor(i, KeyOf(j.id))

-----------------------------------------------------------------------------
(* Claims about the bot's initialization (SpecInitialize)                  *)

\* C38: the initialization passes its connection step as established only
\* with the client connected; a failed attempt is followed by a backoff and
\* another attempt, and the initialization fails after five failed ones.
C38_ConnectionRetriedUntilConnected ==
    /\ init.pc = "established" => is_connected
    /\ init.pc = "failed" => (init.i = 4 /\ init.slept = <<1, 2, 4, 8>>)

-----------------------------------------------------------------------------
(* Claims about a cancelled acquisition (SpecAcquireCancel)                *)

\* C31: once the caller has cancelled a call of fetch_wallpaper in
\* progress, no adapter and no validator call is made any more, and the
\* call ends by returning None (Failure).
C31_CancelAbortsWithFailure ==
    /\ [][cancelled => calls' = calls]_vars
    /\ []((cancelled /\ fpc = "done") => result = NoData)

-----------------------------------------------------------------------------
(* Claims about the first fire of a timer (SpecTimers)                     *)

\* C32: the first fire of a job, armed by add_schedule or by
\* load_schedules, comes one full interval after the time it was armed at,
\* never at that time, whatever last_post_time its registry entry holds.
C32_FirstFireAfterFullInterval ==
    \A j \in jobs :
        \A t \in j.first_run :
            /\ t >= j.armed_at + Trigger(KeyOf(j.id)[2])
            /\ t > j.armed_at

\* A job armed by load_schedules at a restart, for an entry whose
\* last_post_time an earlier run has set, has fired for the first time;
\* that run has ended without marking the entry.
C32_Witness ==
    /\ ticks = {}
    /\ last_tick.outcome \in {"no_record", "raised_fetch", "raised_send"}
    /\ \E j \in jobs, i \in DOMAIN schedules :
         /\ EntryKey(i) = KeyOf(j.id)
         /\ j.id = last_tick.id
         /\ schedules[i].last_post_time # NoTime
         /\ j.armed_at > 0
         /\ j.first_run # NoTime

=============================================================================
